---- MODULE Spec2Model ----
(***************************************************************************)
(* Model of the to-do list component of todo-app/src/App.tsx: the React    *)
(* state of App (todos, inputValue), the 'todos' slot of localStorage, the *)
(* two mount effects (load, save), and the store operations addTodo,       *)
(* toggleTodo, deleteTodo and editTodo.                                    *)
(*                                                                         *)
(* Strings are sequences of one-character strings.  JSON.stringify and     *)
(* JSON.parse are modelled on characters: the serializer emits the text    *)
(* the engine emits for an array of Todo objects, the parser is a          *)
(* recursive-descent parser of the JSON grammar over the model's alphabet  *)
(* (numbers are the non-negative integers, string escapes are \" and \\,   *)
(* white space is the space character).                                    *)
(***************************************************************************)
EXTENDS Integers, Sequences, FiniteSets, TLC

\* Largest number of tasks the model lets the collection grow to.
MaxTodos == 2

\* Largest value Date.now() returns in the model (milliseconds since the epoch).
MaxClock == 2

VARIABLES
    todos,       \* App state: the task collection (line 20)
    inputValue,  \* App state: the text of the input field (line 21)
    storage,     \* localStorage slot 'todos'
    pending,     \* state update scheduled by setTodos in the load effect
    pc,          \* "effects" | "rerender" | "idle" | "crashed"
    nextEffect,  \* index of the next mount effect to run
    boot,        \* history: what the mount effects read and wrote
    last         \* history: the last user action

vars == <<todos, inputValue, storage, pending, pc, nextEffect, boot, last>>

----------------------------------------------------------------------------
(* Characters and strings *)

Digits == <<"0", "1", "2", "3", "4", "5", "6", "7", "8", "9">>

IsDigit(c) == \E i \in 1..10 : Digits[i] = c

DigitVal(c) == (CHOOSE i \in 1..10 : Digits[i] = c) - 1

RECURSIVE NumToChars(_)
NumToChars(n) ==
    IF n < 10 THEN <<Digits[n + 1]>>
    ELSE NumToChars(n \div 10) \o <<Digits[(n % 10) + 1]>>

\* Number.toString padded to three digits, as in the milliseconds field.
Pad3(n) ==
    <<Digits[((n \div 100) % 10) + 1], Digits[((n \div 10) % 10) + 1], Digits[(n % 10) + 1]>>

\* Date.prototype.toISOString for an instant less than one second after the
\* epoch: "1970-01-01T00:00:00.sssZ".
EpochSecond ==
    <<"1", "9", "7", "0", "-", "0", "1", "-", "0", "1", "T",
      "0", "0", ":", "0", "0", ":", "0", "0", ".">>

toISOString(ms) == EpochSecond \o Pad3(ms) \o <<"Z">>

\* The texts a user types: empty, white space only, and one with the
\* characters JSON must escape.
Texts == { <<>>, <<" ">>, <<"a", "\\", "\"">> }

\* The texts a user saves in the edit field of a task.
EditTexts == { <<>>, <<"a", "\\", "\"">> }

\* The values Date.now() returns.
Ticks == 1..MaxClock

----------------------------------------------------------------------------
(* JSON.stringify of a Todo[] *)

EscapeChar(c) ==
    IF c = "\"" THEN <<"\\", "\"">>
    ELSE IF c = "\\" THEN <<"\\", "\\">>
    ELSE <<c>>

\* The escaped characters of s from position i on.
RECURSIVE EscapeFrom(_, _)
EscapeFrom(s, i) ==
    IF i > Len(s) THEN <<>> ELSE EscapeChar(s[i]) \o EscapeFrom(s, i + 1)

\* A string without a quote or a backslash is its own escaped form.
EscapeChars(s) ==
    IF \A i \in 1..Len(s) : s[i] \notin {"\"", "\\"} THEN s ELSE EscapeFrom(s, 1)

Quote(s) == <<"\"">> \o EscapeChars(s) \o <<"\"">>

BoolChars(b) == IF b THEN <<"t", "r", "u", "e">> ELSE <<"f", "a", "l", "s", "e">>

KeyId == <<"i", "d">>
KeyText == <<"t", "e", "x", "t">>
KeyCompleted == <<"c", "o", "m", "p", "l", "e", "t", "e", "d">>
KeyCreatedAt == <<"c", "r", "e", "a", "t", "e", "d", "A", "t">>

\* One Todo object, its properties in the order of the object literal.
PropId == <<"{">> \o Quote(KeyId) \o <<":">>
PropText == <<",">> \o Quote(KeyText) \o <<":">>
PropCompleted == <<",">> \o Quote(KeyCompleted) \o <<":">>
PropCreatedAt == <<",">> \o Quote(KeyCreatedAt) \o <<":">>

StringifyTodo(t) ==
    PropId \o NumToChars(t.id)
    \o PropText \o Quote(t.text)
    \o PropCompleted \o BoolChars(t.completed)
    \o PropCreatedAt \o Quote(t.createdAt)
    \o <<"}">>

\* The elements of ts from position i on, separated by commas.
RECURSIVE StringifyItems(_, _)
StringifyItems(ts, i) ==
    IF i > Len(ts) THEN <<>>
    ELSE IF i = Len(ts) THEN StringifyTodo(ts[i])
    ELSE StringifyTodo(ts[i]) \o <<",">> \o StringifyItems(ts, i + 1)

JSONstringify(ts) == <<"[">> \o StringifyItems(ts, 1) \o <<"]">>

----------------------------------------------------------------------------
(* JSON.parse *)

\* Parsed values, tagged by their JavaScript type.
JNull == <<"null">>
JBool(b) == <<"bool", b>>
JNum(n) == <<"num", n>>
JStr(s) == <<"str", s>>
JArr(items) == <<"arr", items>>
JObj(members) == <<"obj", members>>

\* A SyntaxError.
Fail == [ok |-> FALSE, val |-> JNull, rest |-> <<>>]

Ok(v, r) == [ok |-> TRUE, val |-> v, rest |-> r]

RECURSIVE SkipWs(_)
SkipWs(s) == IF s # <<>> /\ Head(s) = " " THEN SkipWs(Tail(s)) ELSE s

RECURSIVE ParseDigits(_, _)
ParseDigits(s, n) ==
    IF s # <<>> /\ IsDigit(Head(s))
    THEN ParseDigits(Tail(s), 10 * n + DigitVal(Head(s)))
    ELSE Ok(JNum(n), s)

\* A leading zero ends the number.
ParseNumber(s) ==
    IF Head(s) = "0" THEN Ok(JNum(0), Tail(s)) ELSE ParseDigits(s, 0)

\* ParseChars without the escape sequences: a backslash is an ordinary
\* character.
RECURSIVE ParseCharsNoEscape(_, _)
ParseCharsNoEscape(s, acc) ==
    IF s = <<>> THEN Fail
    ELSE IF Head(s) = "\"" THEN Ok(JStr(acc), Tail(s))
    ELSE ParseCharsNoEscape(Tail(s), Append(acc, Head(s)))

\* The characters of a string, s starting after the opening quote.
RECURSIVE ParseChars(_, _)
ParseChars(s, acc) ==
    IF s = <<>> THEN Fail
    ELSE IF Head(s) = "\"" THEN Ok(JStr(acc), Tail(s))
    ELSE IF Head(s) = "\\" THEN
        IF Len(s) >= 2 /\ s[2] \in {"\"", "\\"}
        THEN ParseChars(Tail(Tail(s)), Append(acc, s[2]))
        ELSE Fail
    ELSE ParseChars(Tail(s), Append(acc, Head(s)))

Literal(s, word, v) ==
    IF Len(s) >= Len(word) /\ SubSeq(s, 1, Len(word)) = word
    THEN Ok(v, SubSeq(s, Len(word) + 1, Len(s)))
    ELSE Fail

RECURSIVE ParseValue(_), ParseElements(_, _), ParseMembers(_, _)
ParseValue(s0) ==
    LET s == SkipWs(s0) IN
    IF s = <<>> THEN Fail
    ELSE IF Head(s) = "[" THEN
        LET t == SkipWs(Tail(s)) IN
        IF t # <<>> /\ Head(t) = "]" THEN Ok(JArr(<<>>), Tail(t))
        ELSE ParseElements(t, <<>>)
    ELSE IF Head(s) = "{" THEN
        LET t == SkipWs(Tail(s)) IN
        IF t # <<>> /\ Head(t) = "}" THEN Ok(JObj(<<>>), Tail(t))
        ELSE ParseMembers(t, <<>>)
    ELSE IF Head(s) = "\"" THEN ParseChars(Tail(s), <<>>)
    ELSE IF IsDigit(Head(s)) THEN ParseNumber(s)
    ELSE IF Head(s) = "t" THEN Literal(s, <<"t", "r", "u", "e">>, JBool(TRUE))
    ELSE IF Head(s) = "f" THEN Literal(s, <<"f", "a", "l", "s", "e">>, JBool(FALSE))
    ELSE IF Head(s) = "n" THEN Literal(s, <<"n", "u", "l", "l">>, JNull)
    ELSE Fail

\* The elements of an array, s starting at an element.
ParseElements(s, acc) ==
    LET r == ParseValue(s) IN
    IF ~r.ok THEN Fail
    ELSE LET t == SkipWs(r.rest) IN
        IF t = <<>> THEN Fail
        ELSE IF Head(t) = "," THEN ParseElements(Tail(t), Append(acc, r.val))
        ELSE IF Head(t) = "]" THEN Ok(JArr(Append(acc, r.val)), Tail(t))
        ELSE Fail

\* The members of an object, s starting at a member's key.
ParseMembers(s0, acc) ==
    LET s == SkipWs(s0) IN
    IF s = <<>> \/ Head(s) # "\"" THEN Fail
    ELSE LET k == ParseChars(Tail(s), <<>>) IN
        IF ~k.ok THEN Fail
        ELSE LET c == SkipWs(k.rest) IN
            IF c = <<>> \/ Head(c) # ":" THEN Fail
            ELSE LET r == ParseValue(Tail(c)) IN
                IF ~r.ok THEN Fail
                ELSE LET t == SkipWs(r.rest)
                         m == Append(acc, <<k.val[2], r.val>>) IN
                    IF t = <<>> THEN Fail
                    ELSE IF Head(t) = "," THEN ParseMembers(Tail(t), m)
                    ELSE IF Head(t) = "}" THEN Ok(JObj(m), Tail(t))
                    ELSE Fail

\* JSON.parse(text): one value, then nothing but white space.
JSONparse(text) ==
    LET r == ParseValue(text) IN
    IF r.ok /\ SkipWs(r.rest) = <<>> THEN Ok(r.val, <<>>) ELSE Fail

----------------------------------------------------------------------------
(* The cast of the parsed value to Todo[], and what rendering does with it *)

IsTodo(v) ==
    /\ v[1] = "obj"
    /\ Len(v[2]) = 4
    /\ v[2][1][1] = KeyId /\ v[2][1][2][1] = "num"
    /\ v[2][2][1] = KeyText /\ v[2][2][2][1] = "str"
    /\ v[2][3][1] = KeyCompleted /\ v[2][3][2][1] = "bool"
    /\ v[2][4][1] = KeyCreatedAt /\ v[2][4][2][1] = "str"

IsTodoArray(v) ==
    IF v[1] # "arr" THEN FALSE
    ELSE \A i \in 1..Len(v[2]) : IsTodo(v[2][i])

ToTodo(v) ==
    [id |-> v[2][1][2][2], text |-> v[2][2][2][2],
     completed |-> v[2][3][2][2], createdAt |-> v[2][4][2][2]]

ToTodos(v) == [i \in 1..Len(v[2]) |-> ToTodo(v[2][i])]

\* Rendering evaluates todos.filter(todo => todo.completed): a TypeError when
\* todos has no filter method (it is not an array) or an element is null.
RenderThrows(v) ==
    IF v[1] # "arr" THEN TRUE
    ELSE \E i \in 1..Len(v[2]) : v[2][i][1] = "null"

completedCount(ts) == Cardinality({i \in 1..Len(ts) : ts[i].completed})

totalCount(ts) == Len(ts)

----------------------------------------------------------------------------
(* localStorage *)

Absent == [present |-> FALSE, text |-> <<>>]

Present(text) == [present |-> TRUE, text |-> text]

\* if (savedTodos): null and the empty string are falsy.
Truthy(slot) == slot.present /\ slot.text # <<>>

\* EffectOrder with the two useEffect calls swapped.
EffectOrderSaveFirst == <<"save", "load">>

\* The order in which the mount effects run: the order of the useEffect calls.
EffectOrder == <<"load", "save">>

\* SaveEffect that does not write an empty collection.
SaveEffectSkipEmpty(ts) ==
    IF ts = <<>> THEN storage ELSE Present(JSONstringify(ts))

\* The save effect: localStorage.setItem('todos', JSON.stringify(todos)).
SaveEffect(ts) == Present(JSONstringify(ts))

\* RemoveItem that leaves the slot as it is.
RemoveItemKeep(slot) == slot

\* What the load effect leaves in the slot when JSON.parse throws.
RemoveItem(slot) == Absent

----------------------------------------------------------------------------
(* The store operations on the collection *)

\* Date.now() and new Date() of one call read the same millisecond.
NewTodo(text, now) ==
    [id |-> now, text |-> text, completed |-> FALSE, createdAt |-> toISOString(now)]

\* AppendTodo that puts the new task first.
AppendTodoFront(ts, t) == <<t>> \o ts

\* [...todos, newTodo]
AppendTodo(ts, t) == Append(ts, t)

\* ToggleMap that marks the task completed instead of flipping the flag.
ToggleMapSet(ts, id) ==
    [i \in 1..Len(ts) |->
        IF ts[i].id = id THEN [ts[i] EXCEPT !.completed = TRUE] ELSE ts[i]]

\* todos.map(todo => todo.id === id ? {...todo, completed: !todo.completed} : todo)
ToggleMap(ts, id) ==
    [i \in 1..Len(ts) |->
        IF ts[i].id = id THEN [ts[i] EXCEPT !.completed = ~ts[i].completed] ELSE ts[i]]

\* todos.filter(todo => todo.id !== id)
RECURSIVE DeleteFilter(_, _)
DeleteFilter(ts, id) ==
    IF ts = <<>> THEN <<>>
    ELSE IF Head(ts).id # id THEN <<Head(ts)>> \o DeleteFilter(Tail(ts), id)
    ELSE DeleteFilter(Tail(ts), id)

\* EditMap that ignores an empty text.
EditMapNonEmpty(ts, id, newText) ==
    [i \in 1..Len(ts) |->
        IF ts[i].id = id /\ newText # <<>> THEN [ts[i] EXCEPT !.text = newText] ELSE ts[i]]

\* todos.map(todo => todo.id === id ? {...todo, text: newText} : todo)
EditMap(ts, id, newText) ==
    [i \in 1..Len(ts) |->
        IF ts[i].id = id THEN [ts[i] EXCEPT !.text = newText] ELSE ts[i]]

----------------------------------------------------------------------------
(* Initial states *)

Sample1 == NewTodo(<<" ">>, 1)

Sample2 ==
    [id |-> 10, text |-> <<"a", "\\", "\"">>, completed |-> TRUE, createdAt |-> toISOString(1)]

SampleTodos == {Sample1, Sample2}

\* The well-formed collections a previous session may have saved: sequences
\* of sample tasks with distinct ids.
SavedCollections ==
    {T \in UNION {[1..n -> SampleTodos] : n \in 0..MaxTodos} :
        \A i, j \in 1..Len(T) : i # j => T[i].id # T[j].id}

\* A saved collection cut short (an interrupted or truncated write).
Truncated == {SubSeq(JSONstringify(<<Sample1>>), 1, n) :
                n \in 1..(Len(JSONstringify(<<Sample1>>)) - 1)}

\* Slot contents JSON.parse rejects.
CorruptedTexts == Truncated \cup { <<"[", "]", "]">>, <<"x">>, <<"0", "1">> }

\* Slot contents that parse to a value that is not a list of task records.
NonListTexts ==
    { <<"n", "u", "l", "l">>,
      <<"7">>,
      <<"{", "}">>,
      <<"\"", "a", "\"">>,
      <<"[", "n", "u", "l", "l", "]">> }

InitialSlots ==
    {Absent, Present(<<>>), Present(<<"[", " ", "]">>)}
    \cup {Present(c) : c \in CorruptedTexts}
    \cup {Present(c) : c \in NonListTexts}
    \cup {Present(JSONstringify(T)) : T \in SavedCollections}

NoPending == [set |-> FALSE, val |-> JNull]

BootDone == [active |-> FALSE, initial |-> Absent, loaded |-> FALSE,
             read |-> Absent, afterLoad |-> Absent, writes |-> <<>>]


Init ==
    /\ todos = <<>>
    /\ inputValue = <<>>
    /\ storage \in InitialSlots
    /\ pending = NoPending
    /\ pc = "effects"
    /\ nextEffect = 1
    /\ boot = [BootDone EXCEPT !.active = TRUE, !.initial = storage]
    /\ last = "none"

----------------------------------------------------------------------------
(* Mount: the two effects, then the re-render the load effect scheduled *)

EffectsDone(p) ==
    /\ nextEffect' = nextEffect + 1
    /\ pc' = IF nextEffect < Len(EffectOrder) THEN "effects"
             ELSE IF p.set THEN "rerender" ELSE "idle"

LoadEffect ==
    /\ pc = "effects"
    /\ EffectOrder[nextEffect] = "load"
    /\ LET savedTodos == storage
           r == JSONparse(savedTodos.text)
       IN  /\ IF Truthy(savedTodos)
              THEN IF r.ok
                   THEN /\ pending' = [set |-> TRUE, val |-> r.val]
                        /\ storage' = storage
                   ELSE /\ pending' = pending
                        /\ storage' = RemoveItem(storage)
              ELSE /\ pending' = pending
                   /\ storage' = storage
           /\ boot' = [boot EXCEPT !.loaded = TRUE, !.read = savedTodos,
                                   !.afterLoad = storage']
           /\ EffectsDone(pending')
    /\ UNCHANGED <<todos, inputValue, last>>

MountSaveEffect ==
    /\ pc = "effects"
    /\ EffectOrder[nextEffect] = "save"
    /\ storage' = SaveEffect(todos)
    /\ boot' = [boot EXCEPT !.writes = Append(@, storage'.text)]
    /\ EffectsDone(pending)
    /\ UNCHANGED <<todos, inputValue, pending, last>>

Rerender ==
    /\ pc = "rerender"
    /\ pending' = NoPending
    /\ IF IsTodoArray(pending.val)
       THEN /\ todos' = ToTodos(pending.val)
            /\ storage' = SaveEffect(todos')
            /\ boot' = [boot EXCEPT !.writes = Append(@, storage'.text)]
            /\ pc' = "idle"
       ELSE /\ RenderThrows(pending.val)
            /\ pc' = "crashed"
            /\ UNCHANGED <<todos, storage, boot>>
    /\ UNCHANGED <<inputValue, nextEffect, last>>

----------------------------------------------------------------------------
(* User actions: each handler with the re-render and the save effect *)

\* The ids of the tasks of a collection.
IdsOf(ts) == {ts[i].id : i \in 1..Len(ts)}

\* The ids the store operations are called with: those of the tasks shown,
\* and ids of tasks that are not (or no longer) in the collection.
Ids == IdsOf(todos) \cup Ticks

handleInputChange(value) ==
    /\ pc = "idle"
    /\ inputValue' = value
    /\ boot' = BootDone
    /\ last' = "input"
    /\ UNCHANGED <<todos, storage, pending, pc, nextEffect>>

addTodo ==
    /\ pc = "idle"
    /\ IF inputValue # <<>>
       THEN /\ Len(todos) < MaxTodos
            /\ \E now \in Ticks :
                todos' = AppendTodo(todos, NewTodo(inputValue, now))
            /\ inputValue' = <<>>
            /\ storage' = SaveEffect(todos')
       ELSE UNCHANGED <<todos, inputValue, storage>>
    /\ boot' = BootDone
    /\ last' = IF inputValue # <<>> THEN "add" ELSE "add_empty"
    /\ UNCHANGED <<pending, pc, nextEffect>>

toggleTodo(id) ==
    /\ pc = "idle"
    /\ todos' = ToggleMap(todos, id)
    /\ storage' = SaveEffect(todos')
    /\ boot' = BootDone
    /\ last' = "toggle"
    /\ UNCHANGED <<inputValue, pending, pc, nextEffect>>

deleteTodo(id) ==
    /\ pc = "idle"
    /\ todos' = DeleteFilter(todos, id)
    /\ storage' = SaveEffect(todos')
    /\ boot' = BootDone
    /\ last' = "delete"
    /\ UNCHANGED <<inputValue, pending, pc, nextEffect>>

editTodo(id, newText) ==
    /\ pc = "idle"
    /\ todos' = EditMap(todos, id, newText)
    /\ storage' = SaveEffect(todos')
    /\ boot' = BootDone
    /\ last' = "edit"
    /\ UNCHANGED <<inputValue, pending, pc, nextEffect>>

Next ==
    \/ LoadEffect
    \/ MountSaveEffect
    \/ Rerender
    \/ \E value \in Texts : handleInputChange(value)
    \/ addTodo
    \/ \E id \in Ids : toggleTodo(id)
    \/ \E id \in Ids : deleteTodo(id)
    \/ \E id \in Ids, newText \in EditTexts : editTodo(id, newText)

Spec == Init /\ [][Next]_vars

\* A session that starts with nothing persisted.
InitFresh == Init /\ storage = Absent

NextFresh ==
    \/ LoadEffect
    \/ MountSaveEffect
    \/ \E value \in Texts : handleInputChange(value)
    \/ addTodo
    \/ \E id \in Ids : toggleTodo(id)
    \/ \E id \in Ids : deleteTodo(id)
    \/ \E id \in Ids, newText \in EditTexts : editTodo(id, newText)

SpecFresh == InitFresh /\ [][NextFresh]_vars

\* The mount alone.  A state update scheduled by setTodos is always
\* rendered: React does not drop the re-render.
NextMount ==
    \/ LoadEffect
    \/ MountSaveEffect
    \/ Rerender

SpecMount == Init /\ [][NextMount]_vars /\ WF_vars(Rerender)

TypeOK ==
    /\ pc \in {"effects", "rerender", "idle", "crashed"}
    /\ Len(todos) <= MaxTodos
    /\ inputValue \in Texts
    /\ completedCount(todos) <= totalCount(todos)

----------------------------------------------------------------------------
(* Properties *)

\* The result of parsing what the slot held at mount.
InitialParse == JSONparse(boot.initial.text)

\* The slot held a list of task records at mount.
SavedWellFormed ==
    Truthy(boot.initial) /\ InitialParse.ok /\ IsTodoArray(InitialParse.val)

Last(q) == q[Len(q)]

\* The collection the load effect read from a well-formed slot.
LoadedCollection ==
    IF SavedWellFormed THEN ToTodos(InitialParse.val) ELSE <<>>

\* The mount is over with the loaded collection in memory and last written.
LoadedSettled ==
    IF pc = "idle" /\ boot.writes # <<>>
    THEN /\ todos = LoadedCollection
         /\ Last(boot.writes) = JSONstringify(LoadedCollection)
         /\ storage = Present(JSONstringify(LoadedCollection))
    ELSE FALSE

\* C1: write-through persistence.  Whenever the component is at rest (the
\* effects of the last operation have run), the 'todos' slot holds exactly
\* the serialization of the in-memory collection.
C1_WriteThrough ==
    pc = "idle" => storage = Present(JSONstringify(todos))

C1_Witness ==
    /\ pc = "idle"
    /\ last = "delete"
    /\ Len(todos) >= 1
    /\ \E i \in 1..Len(todos) : todos[i].completed /\ todos[i].text = <<>>
    /\ storage = Present(JSONstringify(todos))

\* C2: round trip at startup.  For every well-formed collection T saved in
\* the slot, once the mount has settled the in-memory collection is T and
\* the slot holds the serialization of T.
C2_RoundTrip ==
    \A T \in SavedCollections :
        (boot.active /\ pc = "idle" /\ boot.initial = Present(JSONstringify(T)))
            => (todos = T /\ storage = Present(JSONstringify(T)))

C2_Witness ==
    /\ boot.active /\ pc = "idle"
    /\ boot.initial = Present(JSONstringify(<<Sample2, Sample1>>))
    /\ todos = <<Sample2, Sample1>>
    /\ storage = boot.initial

\* C3: corrupted persisted data.  When the content of the slot fails to
\* parse, the load effect that parsed it leaves the slot removed, and after
\* startup the collection is empty and the slot no longer holds the
\* corrupted content.
C3_CorruptedCleared ==
    (boot.active /\ boot.initial.present /\ ~InitialParse.ok) =>
        /\ (boot.loaded /\ Truthy(boot.initial)) => boot.afterLoad = Absent
        /\ pc = "idle" => (todos = <<>> /\ storage # boot.initial)

C3_Witness ==
    /\ boot.active /\ pc = "idle"
    /\ boot.initial = Present(SubSeq(JSONstringify(<<Sample1>>), 1, 9))
    /\ boot.afterLoad = Absent
    /\ todos = <<>>
    /\ storage = Present(<<"[", "]">>)

\* C4: ids are unique within a store instance.  In every state reached by
\* add, toggle, edit and delete from an empty store, no two tasks of the
\* collection have the same id.
C4_UniqueIds ==
    \A i, j \in 1..Len(todos) : i # j => todos[i].id # todos[j].id

\* C5: delete(id) on a store that contains id removes exactly one record,
\* the one with that id, and leaves the others and their order unchanged;
\* delete of an id the store does not contain, and so a second delete of
\* the same id, leaves the collection unchanged.
C5_DeleteExactlyOne ==
    [][last' = "delete" =>
        \A id \in Ids : deleteTodo(id) =>
            /\ id \in IdsOf(todos) =>
                \E k \in 1..Len(todos) :
                    /\ todos[k].id = id
                    /\ todos' = SubSeq(todos, 1, k - 1) \o SubSeq(todos, k + 1, Len(todos))
            /\ id \notin IdsOf(todos) => todos' = todos
            /\ DeleteFilter(todos', id) = todos']_vars

\* C6: toggle(id) applied twice in a row gives back the collection as it
\* was before the two toggles, the completed flag of the task included;
\* toggle of an id that is not in the collection leaves it unchanged.
C6_ToggleTwice ==
    [][last' = "toggle" =>
        \A id \in Ids : toggleTodo(id) =>
            /\ ToggleMap(todos', id) = todos
            /\ id \notin IdsOf(todos) => todos' = todos]_vars

C6_Witness ==
    /\ last = "toggle"
    /\ Ticks \subseteq IdsOf(todos)
    /\ Len(todos) >= 2
    /\ \E i, j \in 1..Len(todos) : todos[i].completed /\ ~todos[j].completed

C8_Frame ==
    [][/\ last' = "toggle" =>
            \A id \in Ids : todos' = ToggleMap(todos, id) =>
                /\ Len(todos') = Len(todos)
                /\ \A i \in 1..Len(todos) :
                    /\ todos'[i].id = todos[i].id
                    /\ todos'[i].text = todos[i].text
                    /\ todos'[i].createdAt = todos[i].createdAt
                    /\ todos'[i].completed =
                         IF todos[i].id = id THEN ~todos[i].completed
                         ELSE todos[i].completed
       /\ last' = "edit" =>
            \A id \in Ids, newText \in EditTexts : todos' = EditMap(todos, id, newText) =>
                /\ Len(todos') = Len(todos)
                /\ \A i \in 1..Len(todos) :
                    /\ todos'[i].id = todos[i].id
                    /\ todos'[i].completed = todos[i].completed
                    /\ todos'[i].createdAt = todos[i].createdAt
                    /\ todos'[i].text =
                         IF todos[i].id = id THEN newText ELSE todos[i].text]_vars

C8_Witness ==
    /\ last = "edit"
    /\ Ticks \subseteq IdsOf(todos)
    /\ Len(todos) >= 2
    /\ \E i, j \in 1..Len(todos) :
        /\ todos[i].text = <<>> /\ todos[i].completed
        /\ todos[j].text # <<>> /\ todos[j].id # todos[i].id

\* C9: whatever the slot holds at startup, the value the load effect hands
\* to the component is a list of task records, and rendering (the counts)
\* never fails.
C9_LoadYieldsTaskList ==
    /\ pending.set => IsTodoArray(pending.val)
    /\ pc # "crashed"

\* C10: startup ordering.  The load effect reads the slot as it was at
\* mount, before the save effect writes to it; and when the slot held a
\* well-formed collection T, the writes made before T is applied are
\* followed by a write of T, so that the mount settles with T in memory and
\* in the slot.
C10_LoadBeforeSave ==
    /\ [](boot.loaded => boot.read = boot.initial)
    /\ (SavedWellFormed /\ boot.writes # <<>> /\ pc # "idle") ~> LoadedSettled

C10_Witness ==
    /\ pc = "idle"
    /\ boot.initial = Present(JSONstringify(<<Sample1, Sample2>>))
    /\ boot.read = boot.initial
    /\ Len(boot.writes) = 2
    /\ boot.writes[1] = <<"[", "]">>
    /\ boot.writes[2] = JSONstringify(<<Sample1, Sample2>>)
    /\ todos = <<Sample1, Sample2>>

====
